---- MODULE Spec2Model ----
(***************************************************************************)
(* Model of src/pages/BookingForm.jsx: the schema compiler                 *)
(* generateZodSchema and the BookingForm component (its six state hooks,   *)
(* the loadFormFields effect and the onSubmit handler), together with the  *)
(* asynchronous store / notifier calls it has in flight.                   *)
(***************************************************************************)
EXTENDS FiniteSets, Integers, Sequences, TLC

\* ------------------------------------------------------------------------
\* Bounds of the model
\* ------------------------------------------------------------------------

\* number of onSubmit invocations (createBooking calls) explored per session
MaxSubmits == 2

\* longest plain string handed to a compiled schema (a tel field asks for 10)
MaxStrLen == 10

\* largest number handed to a compiled schema (ranges lie within 5..10)
MaxNumber == 12

\* ------------------------------------------------------------------------
\* Values
\* ------------------------------------------------------------------------

\* JavaScript null, the initial value of bookingId, error and emailStatus
Null == "null"

\* A raw input value: undefined, a string (its length, whether it matches the
\* e-mail pattern, whether new Date(val) is a valid date, whether it is the
\* decimal text of the number n) or a number.
Undef == [k |-> "undef", len |-> 0, email |-> FALSE, date |-> FALSE,
          numeric |-> FALSE, n |-> 0]

Str(l, e, d) == [k |-> "str", len |-> l, email |-> e, date |-> d,
                 numeric |-> FALSE, n |-> 0]

Num(v) == [k |-> "num", len |-> 0, email |-> FALSE, date |-> FALSE,
           numeric |-> FALSE, n |-> v]

\* the string an <input type="number"> yields for the number v: "7", "12";
\* whether new Date("7") is a valid date depends on the engine (d)
NumStr(v, d) == [k |-> "str", len |-> (IF v < 10 THEN 1 ELSE 2), email |-> FALSE,
                 date |-> d, numeric |-> TRUE, n |-> v]

\* the values read from a registered <input>: "", "a@b.co", "2024-05-01T10:00"
\* (an <input> always yields a string; a key no field registers is undefined)
RawValues == {Str(0, FALSE, FALSE), Str(6, TRUE, FALSE), Str(16, FALSE, TRUE)}

\* JavaScript truthiness of a raw value (if (data.email))
Truthy(v) == \/ v.k = "str" /\ v.len > 0
             \/ v.k = "num" /\ v.n # 0

\* An optional numeric attribute of a field: <<>> when absent, <<n>> when set
Absent == <<>>

\* field.minLength || 10, if (field.minLength): a set, non-zero attribute
TruthyAttr(a) == Len(a) = 1 /\ a[1] # 0

\* typeof field.min === 'number'
IsNumberAttr(a) == Len(a) = 1

Field(id, name, label, type, required, minLength, min, max) ==
    [id |-> id, name |-> name, label |-> label, type |-> type,
     required |-> required, minLength |-> minLength, min |-> min, max |-> max]

\* ------------------------------------------------------------------------
\* generateZodSchema: the rule of one field and the validation of a record
\* ------------------------------------------------------------------------

\* "no violation"
Ok == <<>>

\* z.string(): undefined gives zod's "Required", a non-string its type error
StringBase(v) ==
    IF v.k = "undef" THEN <<"Required">>
    ELSE IF v.k # "str" THEN <<"Expected string, received number">>
    ELSE Ok

\* a switch without the case 'datetime-local' label
DateTypes_DateOnly == {"date"}

\* case 'date': case 'datetime-local': the types whose value must parse as a date
DateTypes == {"date", "datetime-local"}

\* the first violated message of the field's base schema for value v
FieldSchema(field, v) ==
    CASE field.type = "email" ->
           IF StringBase(v) # Ok THEN StringBase(v)
           ELSE IF ~v.email THEN <<field.label, " must be a valid email">>
           ELSE Ok
      [] field.type = "number" ->
           IF v.k = "undef" THEN <<field.label, " is required">>
           ELSE IF v.k # "num" THEN <<field.label, " must be a number">>
           ELSE IF IsNumberAttr(field.min) /\ v.n < field.min[1]
                THEN <<field.label, " must be at least ", ToString(field.min[1])>>
           ELSE IF IsNumberAttr(field.max) /\ v.n > field.max[1]
                THEN <<field.label, " must be at most ", ToString(field.max[1])>>
           ELSE Ok
      [] field.type \in DateTypes ->
           IF StringBase(v) # Ok THEN StringBase(v)
           ELSE IF ~v.date THEN <<field.label, " must be a valid date">>
           ELSE Ok
      [] field.type = "tel" ->
           LET bound == IF TruthyAttr(field.minLength) THEN field.minLength[1] ELSE 10
           IN  IF StringBase(v) # Ok THEN StringBase(v)
               ELSE IF v.len < bound
                    THEN <<field.label, " must be at least ", ToString(bound), " characters">>
               ELSE Ok
      [] OTHER ->
           IF StringBase(v) # Ok THEN StringBase(v)
           ELSE IF TruthyAttr(field.minLength) /\ v.len < field.minLength[1]
                THEN <<field.label, " must be at least ", ToString(field.minLength[1]), " characters">>
           ELSE Ok

\* field.required ? fieldSchema : fieldSchema.optional()
FieldRule(field, v) ==
    IF ~field.required /\ v.k = "undef" THEN Ok ELSE FieldSchema(field, v)

\* a compiler that never stores the rule of the last field of the list
schemaObject_DropsLast(fields) ==
    [name \in {fields[i].name : i \in 1..(Len(fields) - 1)} |->
        CHOOSE i \in 1..(Len(fields) - 1) : fields[i].name = name]

\* const schemaObject = {}; fields.forEach(field => { ...;
\* schemaObject[field.name] = ... }): the object after the loop, each key
\* holding the position of the field whose rule was stored under it last
RECURSIVE schemaObject(_)
schemaObject(fields) ==
    IF fields = << >> THEN [name \in {} |-> 0]
    ELSE LET n == Len(fields)
             before == schemaObject(SubSeq(fields, 1, n - 1))
         IN  [name \in DOMAIN before \cup {fields[n].name} |->
                 IF name = fields[n].name THEN n ELSE before[name]]

\* the keys of the schema object
SchemaKeys(fields) == DOMAIN schemaObject(fields)

\* schemaObject[field.name] = ...: a later field of the same name overwrites
RuleIndex(fields, name) ==
    CHOOSE i \in 1..Len(fields) :
        /\ fields[i].name = name
        /\ \A j \in 1..Len(fields) : fields[j].name = name => j <= i

\* the value a record holds under a key (undefined when the key is missing)
Get(data, name) == IF name \in DOMAIN data THEN data[name] ELSE Undef

\* z.object(schemaObject) applied to a record: field name -> violated message
generateZodSchema(fields, data) ==
    LET bad == {name \in SchemaKeys(fields) :
                   FieldRule(fields[RuleIndex(fields, name)], Get(data, name)) # Ok}
    IN  [name \in bad |-> FieldRule(fields[RuleIndex(fields, name)], Get(data, name))]

\* the record handed to onSubmit: z.object strips the keys it does not know
Parsed(fields, data) ==
    [name \in SchemaKeys(fields) \cap DOMAIN data |-> data[name]]

\* ------------------------------------------------------------------------
\* The collaborators' possible answers
\* ------------------------------------------------------------------------

\* the default list with an e-mail address that is not required
DEFAULT_FIELDS_EmailOptional ==
    << Field(1, "fullName", "Full Name", "text", TRUE, <<2>>, Absent, Absent),
       Field(2, "email", "Email", "email", FALSE, Absent, Absent, Absent),
       Field(3, "date", "Date & Time", "datetime-local", TRUE, Absent, Absent, Absent) >>

\* Default fields if no settings found
DEFAULT_FIELDS ==
    << Field(1, "fullName", "Full Name", "text", TRUE, <<2>>, Absent, Absent),
       Field(2, "email", "Email", "email", TRUE, Absent, Absent, Absent),
       Field(3, "date", "Date & Time", "datetime-local", TRUE, Absent, Absent, Absent) >>

\* field lists an admin may have stored (settings.fields): an empty list, a
\* list whose e-mail is optional, a list whose "email" key is free text
StoredFieldLists ==
    { << >>,
      << Field(1, "phone", "Phone", "tel", TRUE, Absent, Absent, Absent),
         Field(2, "email", "Email", "email", FALSE, Absent, Absent, Absent) >>,
      << Field(7, "email", "Contact", "text", TRUE, Absent, Absent, Absent) >> }

\* the field types the switch of generateZodSchema tells apart, "text" standing
\* for every type of its default branch
FieldTypes == {"email", "number", "date", "datetime-local", "tel", "text"}

\* field.minLength: not set, 0, 5
MinLengths == {Absent, <<0>>, <<5>>}

\* field.min and field.max: neither, both (5..10), only one of them
Ranges == {<<Absent, Absent>>, <<(<<5>>), (<<10>>)>>, <<(<<5>>), Absent>>,
           <<Absent, (<<10>>)>>}

\* one field "f" labelled "F" of every type and every setting of its attributes
ProbeFields ==
    {Field(1, "f", "F", t, r, ml, rg[1], rg[2]) :
        t \in FieldTypes, r \in BOOLEAN, ml \in MinLengths, rg \in Ranges}

\* the values a record may hold under a key: undefined, the strings of every
\* length up to MaxStrLen, an e-mail address, a date, the decimal text of a
\* number, and the numbers themselves
ProbeValues ==
    {Undef} \cup {Str(l, FALSE, FALSE) : l \in 0..MaxStrLen}
            \cup {Str(6, TRUE, FALSE), Str(16, FALSE, TRUE)}
            \cup {NumStr(v, d) : v \in 0..MaxNumber, d \in BOOLEAN}
            \cup {Num(v) : v \in 0..MaxNumber}

\* the field lists handed to generateZodSchema on its own: the empty list,
\* every one-field list, the default list, the stored lists, and a list in
\* which two fields share a name
ProbeFieldLists ==
    {<< >>, DEFAULT_FIELDS} \cup {<<f>> : f \in ProbeFields} \cup StoredFieldLists
        \cup { << Field(1, "phone", "Phone", "tel", TRUE, Absent, Absent, Absent),
                  Field(2, "phone", "Phone", "text", FALSE, Absent, Absent, Absent) >> }

\* the names of the fields of a list
FieldNames(fields) == {fields[i].name : i \in 1..Len(fields)}

\* the records a compiled schema is applied to: one value under every field
\* name (all of ProbeValues for a list of at most one field), with and
\* without a key that no field names
ProbeRecords(fields) ==
    LET values == IF Len(fields) <= 1 THEN ProbeValues ELSE RawValues \cup {Undef}
        named  == [FieldNames(fields) -> values]
    IN  named \cup {d @@ ("extra" :> Str(6, TRUE, FALSE)) : d \in named}

\* identifiers createBooking may return
BookingIds == {"B123", "B456"}

\* error.message of a rejected createBooking ("" when the error carries none)
StoreErrorMessages == {"", "Permission denied"}

LoadErrorMessage == "Failed to load form. Please try again later."

CreateErrorFallback == "Failed to create booking. Please try again."

EmailSent == "Confirmation email sent!"

EmailFailed == "Booking confirmed but email delivery failed."

\* ------------------------------------------------------------------------
\* State
\* ------------------------------------------------------------------------

VARIABLES
    bookingId,      \* useState(null)
    formFields,     \* useState([])
    isLoading,      \* useState(true)
    error,          \* useState(null)
    isSubmitting,   \* useState(false)
    emailStatus,    \* useState(null)
    errors,         \* formState.errors of useForm: field name -> message
    mounted,        \* the component is mounted (the session is alive)
    view,           \* the state the last committed render shows to the user
    fetch,          \* the getFormFields() call and what the store answered
    subs,           \* the onSubmit invocations, in the order they started
    returned,       \* what the onSubmit invocation that returned last did
    probe           \* a field list compiled and applied to a record on its own

vars == <<bookingId, formFields, isLoading, error, isSubmitting, emailStatus,
          errors, mounted, view, fetch, subs, returned, probe>>

\* the six state hooks of the component (SubmissionState)
hooks == <<bookingId, formFields, isLoading, error, isSubmitting, emailStatus>>

\* what the JSX reads to decide whether a submit can be triggered and which
\* resolver validates it
Snapshot == [isLoading |-> isLoading, bookingId |-> bookingId,
             isSubmitting |-> isSubmitting, formFields |-> formFields]

NoErrors == [name \in {} |-> Ok]

\* no field list is being compiled outside a session
NoProbe == [pc |-> "none", fields |-> << >>, data |-> << >>, keys |-> {},
            errors |-> NoErrors]

\* settings?.fields of the store's answer: << >> when there is none, <<list>>
\* when there is one
NoSettings == << >>

\* the getFormFields() call: status "pending", "resolved" or "rejected"
Fetch(status, settings) == [status |-> status, settings |-> settings]

Init ==
    /\ bookingId = Null
    /\ formFields = << >>
    /\ isLoading = TRUE
    /\ error = Null
    /\ isSubmitting = FALSE
    /\ emailStatus = Null
    /\ errors = NoErrors
    /\ mounted = TRUE
    /\ view = [isLoading |-> TRUE, bookingId |-> Null,
               isSubmitting |-> FALSE, formFields |-> << >>]
    /\ fetch = Fetch("pending", NoSettings)
    /\ subs = << >>
    /\ returned = [i |-> 0, id |-> Null, message |-> Null, notified |-> FALSE,
                   outcome |-> "none"]
    /\ probe = NoProbe

\* ------------------------------------------------------------------------
\* useEffect: loadFormFields
\* ------------------------------------------------------------------------

\* getFormFields() resolves and settings.fields is present
LoadFieldsPresent(list) ==
    /\ fetch.status = "pending"
    /\ fetch' = Fetch("resolved", <<list>>)
    /\ formFields' = list
    /\ isLoading' = FALSE
    /\ UNCHANGED <<bookingId, error, isSubmitting, emailStatus, errors, mounted,
                   view, subs, returned, probe>>

\* getFormFields() resolves with no settings (or settings without fields)
LoadFieldsAbsent ==
    /\ fetch.status = "pending"
    /\ fetch' = Fetch("resolved", NoSettings)
    /\ formFields' = DEFAULT_FIELDS
    /\ isLoading' = FALSE
    /\ UNCHANGED <<bookingId, error, isSubmitting, emailStatus, errors, mounted,
                   view, subs, returned, probe>>

\* a catch block that falls back to the default fields as well
LoadFieldsFailedWithDefaults ==
    /\ fetch.status = "pending"
    /\ fetch' = Fetch("rejected", NoSettings)
    /\ error' = LoadErrorMessage
    /\ formFields' = DEFAULT_FIELDS
    /\ isLoading' = FALSE
    /\ UNCHANGED <<bookingId, isSubmitting, emailStatus, errors, mounted, view,
                   subs, returned, probe>>

\* getFormFields() rejects: the catch block, then the finally block
LoadFieldsFailed ==
    /\ fetch.status = "pending"
    /\ fetch' = Fetch("rejected", NoSettings)
    /\ error' = LoadErrorMessage
    /\ isLoading' = FALSE
    /\ UNCHANGED <<bookingId, formFields, isSubmitting, emailStatus, errors,
                   mounted, view, subs, returned, probe>>

\* ------------------------------------------------------------------------
\* Rendering and the submit control
\* ------------------------------------------------------------------------

\* React commits a render of the current state
Render ==
    /\ mounted
    /\ view # Snapshot
    /\ view' = Snapshot
    /\ UNCHANGED <<hooks, errors, mounted, fetch, subs, returned, probe>>

\* the committed render shows the form with an enabled submit button
CanSubmit ==
    /\ mounted
    /\ ~view.isLoading
    /\ view.bookingId = Null
    /\ ~view.isSubmitting

\* a started onSubmit invocation, suspended at await createBooking(data)
NewSubmission(data) == [data |-> data, pc |-> "create", id |-> Null]

\* onSubmit up to its first await
OnSubmitStart(data) ==
    /\ Len(subs) < MaxSubmits
    /\ error' = Null
    /\ isSubmitting' = TRUE
    /\ emailStatus' = Null
    /\ subs' = Append(subs, NewSubmission(data))
    /\ UNCHANGED <<bookingId, formFields, isLoading>>

\* onSubmit bound to the form without the resolver's verdict gating it
SubmitEventUngated(data) ==
    /\ CanSubmit
    /\ errors' = generateZodSchema(view.formFields, data)
    /\ OnSubmitStart(Parsed(view.formFields, data))
    /\ UNCHANGED <<mounted, view, fetch, returned, probe>>

\* handleSubmit(onSubmit): the resolver built from the rendered field list
\* validates the record; onSubmit runs only when it reports no violation
SubmitEvent(data) ==
    /\ CanSubmit
    /\ LET violations == generateZodSchema(view.formFields, data)
       IN  /\ errors' = violations
           /\ IF violations = NoErrors
              THEN OnSubmitStart(Parsed(view.formFields, data))
              ELSE UNCHANGED <<hooks, subs>>
    /\ UNCHANGED <<mounted, view, fetch, returned, probe>>

\* ------------------------------------------------------------------------
\* onSubmit after its awaits
\* ------------------------------------------------------------------------

\* an onSubmit invocation that has returned keeps nothing
Finish(i) ==
    [subs EXCEPT ![i] = [data |-> << >>, pc |-> "done", id |-> Null]]

\* what the invocation that returned last did: the identifier createBooking
\* gave it, the message createBooking threw, whether it called the notifier
Returned(i, id, message, notified, outcome) ==
    [i |-> i, id |-> id, message |-> message, notified |-> notified,
     outcome |-> outcome]

\* createBooking(data) resolves with id
CreateBookingResolved(i, id) ==
    /\ subs[i].pc = "create"
    /\ IF Truthy(Get(subs[i].data, "email"))
       THEN \* sendBookingEmail(data, id) is called and awaited
            /\ subs' = [subs EXCEPT ![i].pc = "notify", ![i].id = id]
            /\ UNCHANGED <<hooks, returned>>
       ELSE \* setBookingId(id), then the finally block
            /\ subs' = Finish(i)
            /\ returned' = Returned(i, id, Null, FALSE, "skipped")
            /\ bookingId' = id
            /\ isSubmitting' = FALSE
            /\ UNCHANGED <<formFields, isLoading, error, emailStatus>>
    /\ UNCHANGED <<errors, mounted, view, fetch, probe>>

\* an outer catch block with no finally block after it
CreateBookingRejected_NoFinally(i, message) ==
    /\ subs[i].pc = "create"
    /\ subs' = Finish(i)
    /\ returned' = Returned(i, Null, message, FALSE, "create-failed")
    /\ error' = (IF message # "" THEN message ELSE CreateErrorFallback)
    /\ UNCHANGED <<bookingId, formFields, isLoading, isSubmitting, emailStatus,
                   errors, mounted, view, fetch, probe>>

\* createBooking(data) rejects: the outer catch block, then the finally block
CreateBookingRejected(i, message) ==
    /\ subs[i].pc = "create"
    /\ subs' = Finish(i)
    /\ returned' = Returned(i, Null, message, FALSE, "create-failed")
    /\ error' = (IF message # "" THEN message ELSE CreateErrorFallback)
    /\ isSubmitting' = FALSE
    /\ UNCHANGED <<bookingId, formFields, isLoading, emailStatus, errors,
                   mounted, view, fetch, probe>>

\* sendBookingEmail resolves
SendEmailResolved(i) ==
    /\ subs[i].pc = "notify"
    /\ subs' = Finish(i)
    /\ returned' = Returned(i, subs[i].id, Null, TRUE, "sent")
    /\ emailStatus' = EmailSent
    /\ bookingId' = subs[i].id
    /\ isSubmitting' = FALSE
    /\ UNCHANGED <<formFields, isLoading, error, errors, mounted, view, fetch, probe>>

\* an inner catch block that leaves onSubmit before setBookingId(id)
SendEmailRejected_NoBookingId(i) ==
    /\ subs[i].pc = "notify"
    /\ subs' = Finish(i)
    /\ returned' = Returned(i, subs[i].id, Null, TRUE, "delivery-failed")
    /\ emailStatus' = EmailFailed
    /\ isSubmitting' = FALSE
    /\ UNCHANGED <<bookingId, formFields, isLoading, error, errors, mounted, view,
                   fetch, probe>>

\* sendBookingEmail rejects: the inner catch block
SendEmailRejected(i) ==
    /\ subs[i].pc = "notify"
    /\ subs' = Finish(i)
    /\ returned' = Returned(i, subs[i].id, Null, TRUE, "delivery-failed")
    /\ emailStatus' = EmailFailed
    /\ bookingId' = subs[i].id
    /\ isSubmitting' = FALSE
    /\ UNCHANGED <<formFields, isLoading, error, errors, mounted, view, fetch, probe>>

\* the user navigates away: the component is unmounted. The effect returns
\* no cleanup and no handler tests a mounted flag, so the awaits that are
\* pending still resume and call the setters; React only stops rendering
\* (Render needs the component mounted).
Unmount ==
    /\ mounted
    /\ mounted' = FALSE
    /\ UNCHANGED <<hooks, errors, view, fetch, subs, returned, probe>>

Next ==
    \/ \E list \in StoredFieldLists : LoadFieldsPresent(list)
    \/ LoadFieldsAbsent
    \/ LoadFieldsFailed
    \/ Render
    \/ \E data \in [SchemaKeys(view.formFields) -> RawValues] : SubmitEvent(data)
    \/ \E i \in 1..Len(subs), id \in BookingIds : CreateBookingResolved(i, id)
    \/ \E i \in 1..Len(subs), message \in StoreErrorMessages :
           CreateBookingRejected(i, message)
    \/ \E i \in 1..Len(subs) : SendEmailResolved(i)
    \/ \E i \in 1..Len(subs) : SendEmailRejected(i)
    \/ Unmount

Spec == Init /\ [][Next]_vars

\* ------------------------------------------------------------------------
\* The collaborators answer: every call that was made eventually returns
\* ------------------------------------------------------------------------

\* await getFormFields() resumes, whichever way the call ended
GetFormFieldsReturns ==
    \/ \E list \in StoredFieldLists : LoadFieldsPresent(list)
    \/ LoadFieldsAbsent
    \/ LoadFieldsFailed

\* await createBooking(data) of invocation i resumes
CreateBookingReturns(i) ==
    /\ i \in 1..Len(subs)
    /\ \/ \E id \in BookingIds : CreateBookingResolved(i, id)
       \/ \E message \in StoreErrorMessages : CreateBookingRejected(i, message)

\* await sendBookingEmail(data, id) of invocation i resumes
SendBookingEmailReturns(i) ==
    /\ i \in 1..Len(subs)
    /\ (SendEmailResolved(i) \/ SendEmailRejected(i))

FairSpec ==
    /\ Spec
    /\ WF_vars(GetFormFieldsReturns)
    /\ \A i \in 1..MaxSubmits :
           WF_vars(CreateBookingReturns(i)) /\ WF_vars(SendBookingEmailReturns(i))

\* ------------------------------------------------------------------------
\* generateZodSchema on its own: a field list is compiled, then the schema
\* is applied to a record
\* ------------------------------------------------------------------------

\* the component as constructed, and a field list and a record to compile
\* and validate
CompilerInit ==
    /\ bookingId = Null
    /\ formFields = << >>
    /\ isLoading = TRUE
    /\ error = Null
    /\ isSubmitting = FALSE
    /\ emailStatus = Null
    /\ errors = NoErrors
    /\ mounted = TRUE
    /\ view = [isLoading |-> TRUE, bookingId |-> Null,
               isSubmitting |-> FALSE, formFields |-> << >>]
    /\ fetch = Fetch("pending", NoSettings)
    /\ subs = << >>
    /\ returned = [i |-> 0, id |-> Null, message |-> Null, notified |-> FALSE,
                   outcome |-> "none"]
    /\ \E fields \in ProbeFieldLists : \E data \in ProbeRecords(fields) :
           probe = [pc |-> "input", fields |-> fields, data |-> data,
                    keys |-> {}, errors |-> NoErrors]

\* generateZodSchema(formFields): the schema object is built
CompileSchema ==
    /\ probe.pc = "input"
    /\ probe' = [probe EXCEPT !.pc = "compiled", !.keys = SchemaKeys(probe.fields)]
    /\ UNCHANGED <<hooks, errors, mounted, view, fetch, subs, returned>>

\* the resolver applies the compiled schema to the record
ValidateRecord ==
    /\ probe.pc = "compiled"
    /\ probe' = [probe EXCEPT !.pc = "validated",
                              !.errors = generateZodSchema(probe.fields, probe.data)]
    /\ UNCHANGED <<hooks, errors, mounted, view, fetch, subs, returned>>

CompilerNext == CompileSchema \/ ValidateRecord

CompilerSpec == CompilerInit /\ [][CompilerNext]_vars

\* ------------------------------------------------------------------------
\* The session as the specification names it
\* ------------------------------------------------------------------------

\* the phase the component renders: the spinner while isLoading, the
\* confirmation card once bookingId is set, otherwise the form with a
\* disabled button while isSubmitting or with the error banner
Phase ==
    IF isLoading THEN "Loading"
    ELSE IF bookingId # Null THEN "Confirmed"
    ELSE IF isSubmitting THEN "Submitting"
    ELSE IF error # Null THEN "Failed"
    ELSE "Ready"

\* emailStatus as the specification's notificationStatus: a confirmed booking
\* without a status line is one whose notification was skipped
NotificationStatus ==
    IF emailStatus = EmailSent THEN "Sent"
    ELSE IF emailStatus = EmailFailed THEN "DeliveryFailed"
    ELSE IF bookingId # Null THEN "Skipped"
    ELSE "None"

\* the onSubmit invocations with a createBooking / sendBookingEmail call in flight
Creating == {i \in 1..Len(subs) : subs[i].pc = "create"}

Notifying == {i \in 1..Len(subs) : subs[i].pc = "notify"}

\* ------------------------------------------------------------------------
\* Claims
\* ------------------------------------------------------------------------

\* the step in which invocation i of onSubmit returns from its notify step
NotifyReturns(i) == subs[i].pc = "notify" /\ subs'[i].pc = "done"

\* the step in which invocation i of onSubmit returns from createBooking
\* without calling the notifier
CreateReturns(i, outcome) ==
    subs[i].pc = "create" /\ subs'[i].pc = "done" /\ returned'.outcome = outcome

\* C1: when createBooking succeeded with identifier X for a record with a
\* non-empty email, the notifier's answer leaves the session Confirmed with
\* bookingId = X, notificationStatus = DeliveryFailed if the notifier failed
\* and Sent if it succeeded, and lastError unset.
C1_NotifierFailureStillConfirms ==
    [][\A i \in 1..Len(subs) :
          NotifyReturns(i) =>
              (/\ Phase' = "Confirmed"
               /\ bookingId' = subs[i].id
               /\ NotificationStatus' =
                      (IF returned'.outcome = "sent" THEN "Sent" ELSE "DeliveryFailed")
               /\ error' = Null)]_vars

\* C2: when createBooking fails the session is Failed with lastError = the
\* store's message (the generic fallback when it carries none), bookingId is
\* unset and that submission made no notifier call.
C2_CreateFailureFails ==
    [][\A i \in 1..Len(subs) :
          CreateReturns(i, "create-failed") =>
              (/\ Phase' = "Failed"
               /\ error' = (IF returned'.message # "" THEN returned'.message
                            ELSE CreateErrorFallback)
               /\ bookingId' = Null
               /\ ~returned'.notified)]_vars

\* C3: at most one submission is in flight at any time: while one onSubmit
\* invocation waits for createBooking or the notifier, no further submit is
\* accepted, so at most one createBooking call is outstanding.
C3_OneSubmissionInFlight ==
    Cardinality(Creating \cup Notifying) <= 1

\* C4: once the phase is Confirmed or Failed, no step changes the phase,
\* bookingId or lastError, and no further createBooking or notifier call is
\* issued.
C4_ConfirmedAndFailedTerminal ==
    [][(Phase = "Confirmed" \/ Phase = "Failed") =>
          (/\ Phase' = Phase
           /\ bookingId' = bookingId
           /\ error' = error
           /\ Len(subs') = Len(subs)
           /\ Notifying' \subseteq Notifying)]_vars

\* C5: after the component is unmounted the handlers write no state variable
\* of the session (fields, loading flag, bookingId, notification status,
\* lastError, submitting flag): a result that arrives later is discarded.
C5_NoWriteAfterTeardown ==
    [][~mounted => UNCHANGED hooks]_vars

\* C6: a submit whose record the validator compiled from the current field
\* list rejects only populates the validation errors: it changes no state
\* hook and starts no onSubmit invocation (no store or notifier call); every
\* onSubmit invocation that starts carries a record that validator accepts
\* and leaves no validation error behind.
C6_ValidationGate ==
    [][/\ (errors' # errors /\ errors' # NoErrors) => UNCHANGED <<hooks, subs>>
       /\ Len(subs') > Len(subs) =>
              (/\ generateZodSchema(formFields, subs'[Len(subs')].data) = NoErrors
               /\ errors' = NoErrors)]_vars

\* a rejected submit left the form Ready with its violations and no call made
C6_Witness ==
    /\ Phase = "Ready"
    /\ errors # NoErrors
    /\ subs = << >>
    /\ returned = [i |-> 0, id |-> Null, message |-> Null, notified |-> FALSE,
                   outcome |-> "none"]
    /\ formFields = DEFAULT_FIELDS

\* the default list as the specification documents it
IsDocumentedDefault(list) ==
    /\ Len(list) = 3
    /\ list[1].name = "fullName" /\ list[1].type = "text"
    /\ list[1].required /\ list[1].minLength = <<2>>
    /\ list[2].name = "email" /\ list[2].type = "email" /\ list[2].required
    /\ list[3].name = "date" /\ list[3].type = "datetime-local"
    /\ list[3].required

\* C7: when the field-fetch resolves, the session becomes Ready; its fields
\* are exactly the list the store answered with, or, when the store answered
\* with no field configuration, the documented three default fields.
C7_FetchResolution ==
    [][(fetch.status = "pending" /\ fetch'.status = "resolved") =>
          (/\ Phase' = "Ready"
           /\ IF fetch'.settings # NoSettings
              THEN formFields' = fetch'.settings[1]
              ELSE IsDocumentedDefault(formFields'))]_vars

\* the store reported no configuration and the session is Ready with the defaults
C7_Witness ==
    /\ fetch.status = "resolved"
    /\ fetch.settings = NoSettings
    /\ Phase = "Ready"
    /\ IsDocumentedDefault(formFields)

\* C8: a failing field-fetch makes the session Failed with the "Failed to
\* load form" message and leaves the field list empty; the field list is
\* only ever written by a fetch that resolved.
C8_FetchFailureIsNotAbsence ==
    [][/\ (fetch.status = "pending" /\ fetch'.status = "rejected") =>
              (/\ Phase' = "Failed"
               /\ error' = "Failed to load form. Please try again later."
               /\ formFields' = << >>)
       /\ fetch'.status = "rejected" => formFields' = << >>
       /\ formFields' # formFields =>
              (fetch.status = "pending" /\ fetch'.status = "resolved")]_vars

\* the fetch failed: the error is shown and no field is offered
C8_Witness ==
    /\ fetch.status = "rejected"
    /\ Phase = "Failed"
    /\ error = LoadErrorMessage
    /\ formFields = << >>

\* C9: a notifier call is only in flight for a submission whose createBooking
\* call returned an identifier, which it carries, and no createBooking call
\* is in flight while a notifier call is.
C9_CreateBeforeNotify ==
    /\ \A i \in Notifying : subs[i].id \in BookingIds
    /\ Notifying # {} => Creating = {}

\* C10: when createBooking succeeded with identifier X for a record whose
\* email is absent or empty, no notifier call was made for it and the session
\* is Confirmed with bookingId = X and notificationStatus = Skipped.
C10_NoEmailSkipsNotifier ==
    [][\A i \in 1..Len(subs) :
          CreateReturns(i, "skipped") =>
              (/\ ~returned'.notified
               /\ Phase' = "Confirmed"
               /\ bookingId' = returned'.id
               /\ NotificationStatus' = "Skipped")]_vars

\* ------------------------------------------------------------------------
\* Claims about the compiled schema
\* ------------------------------------------------------------------------

\* no two fields of the list share a name
DistinctNames(fields) ==
    \A i, j \in 1..Len(fields) : fields[i].name = fields[j].name => i = j

\* a list of distinct names has been compiled and applied to the record
Checked == probe.pc = "validated" /\ DistinctNames(probe.fields)

\* the value the record holds for the i-th field, whether the schema reports
\* a violation for that field, and the message it reports
Value(i) == Get(probe.data, probe.fields[i].name)

Violation(i) == probe.fields[i].name \in DOMAIN probe.errors

Message(i) == probe.errors[probe.fields[i].name]

\* the empty string
Empty == Str(0, FALSE, FALSE)

\* C11: for every field type, a required field whose input is absent or the
\* empty string yields a violation for that field, and for an absent value
\* the message is "{label} is required".
C11_RequiredEmptyViolates ==
    Checked =>
        \A i \in 1..Len(probe.fields) :
            (probe.fields[i].required /\ Value(i) \in {Undef, Empty}) =>
                (/\ Violation(i)
                 /\ Value(i) = Undef =>
                        Message(i) = <<probe.fields[i].label, " is required">>)

\* C12: for every field type, a field that is not required and whose input
\* is absent or the empty string yields no violation.
C12_OptionalEmptyNeverViolates ==
    Checked =>
        \A i \in 1..Len(probe.fields) :
            (~probe.fields[i].required /\ Value(i) \in {Undef, Empty}) =>
                ~Violation(i)

\* the input parses as a numeric value: a number, or the decimal text of one
IsNumeric(v) == v.k = "num" \/ (v.k = "str" /\ v.numeric)

\* the numeric value lies within the field's min and max, where given
InRange(field, v) ==
    /\ IsNumberAttr(field.min) => v.n >= field.min[1]
    /\ IsNumberAttr(field.max) => v.n <= field.max[1]

\* C13: a number field accepts an input exactly when it parses as a numeric
\* value within min and max (where given); an input that is not numeric is
\* rejected with "{label} must be a number", which is neither range message.
C13_NumberAcceptsNumericInRange ==
    Checked =>
        \A i \in 1..Len(probe.fields) :
            LET field == probe.fields[i]
                v == Value(i)
            IN  (field.type = "number" /\ v # Undef /\ v # Empty) =>
                    /\ ~Violation(i) <=> (IsNumeric(v) /\ InRange(field, v))
                    /\ ~IsNumeric(v) =>
                           (/\ Violation(i)
                            /\ Message(i) = <<field.label, " must be a number">>)

\* C14: for a field of type date or datetime-local the compiled schema
\* rejects every non-empty string that does not parse into a valid date and
\* accepts every string that does; the field is not treated as free text.
C14_DateFieldsParseDates ==
    Checked =>
        \A i \in 1..Len(probe.fields) :
            LET field == probe.fields[i]
                v == Value(i)
            IN  (field.type \in {"date", "datetime-local"} /\ v.k = "str" /\ v.len > 0) =>
                    /\ Violation(i) <=> ~v.date
                    /\ Violation(i) =>
                           Message(i) = <<field.label, " must be a valid date">>

\* a datetime-local field was handed a non-empty string that is no date and
\* rejected it
C14_Witness ==
    /\ Checked
    /\ \E i \in 1..Len(probe.fields) :
           /\ probe.fields[i].type = "datetime-local"
           /\ Value(i) = Str(MaxStrLen, FALSE, FALSE)
           /\ Violation(i)

\* C15: a required tel field accepts a string exactly when its length is at
\* least minLength, 10 being the bound when minLength is absent.
C15_TelLengthBound ==
    Checked =>
        \A i \in 1..Len(probe.fields) :
            LET field == probe.fields[i]
                v == Value(i)
                bound == IF field.minLength = Absent THEN 10 ELSE field.minLength[1]
            IN  (field.type = "tel" /\ field.required /\ v.k = "str") =>
                    (~Violation(i) <=> v.len >= bound)

\* C16: for every field list with pairwise distinct names, the empty list
\* included, the compiled schema has exactly one rule per field and its key
\* set is the set of field names; for the empty list it accepts every record.
C16_KeysAreFieldNames ==
    (probe.pc \in {"compiled", "validated"} /\ DistinctNames(probe.fields)) =>
        /\ probe.keys = FieldNames(probe.fields)
        /\ Cardinality(probe.keys) = Len(probe.fields)
        /\ (probe.pc = "validated" /\ probe.fields = << >>) => probe.errors = NoErrors

\* the default list compiled to its three keys, and the empty list applied to
\* a record that holds a key
C16_Witness ==
    \/ /\ probe.pc = "compiled"
       /\ probe.fields = DEFAULT_FIELDS
       /\ probe.keys = {"fullName", "email", "date"}
    \/ /\ probe.pc = "validated"
       /\ probe.fields = << >>
       /\ DOMAIN probe.data = {"extra"}
       /\ probe.errors = NoErrors

\* ------------------------------------------------------------------------
\* Claims about the session's state and progress
\* ------------------------------------------------------------------------

\* C17: in every reachable state bookingId is set only when the phase is
\* Confirmed and the error is set only when the phase is Failed; bookingId
\* and the error are never both set.
C17_IdOnlyConfirmedErrorOnlyFailed ==
    /\ bookingId # Null => Phase = "Confirmed"
    /\ error # Null => Phase = "Failed"
    /\ ~(bookingId # Null /\ error # Null)

C20_SubmittingTracksInFlight ==
    ~isSubmitting => (Creating = {} /\ Notifying = {})

\* C19: when every store and notifier call eventually returns, a session in
\* Loading eventually reaches Ready or Failed and a session in Submitting
\* eventually reaches Confirmed or Failed: the loading flag and the
\* submitting flag are cleared on the success and on the failure path.
C19_Progress ==
    /\ Phase = "Loading" ~> (Phase = "Ready" \/ Phase = "Failed")
    /\ Phase = "Submitting" ~> (Phase = "Confirmed" \/ Phase = "Failed")
    /\ isLoading ~> ~isLoading
    /\ isSubmitting ~> ~isSubmitting

\* a submission whose createBooking call failed has left Submitting
C19_Witness ==
    /\ returned.outcome = "create-failed"
    /\ ~isSubmitting
    /\ ~isLoading
    /\ Phase = "Failed"

====
